---- MODULE Spec2Model ----
(***************************************************************************)
(* Model of lib/workers/repository/process/lookup/filter.ts:               *)
(* filterVersions(config, fromVersion, latestVersion, versions) and the    *)
(* module-level regex cache `regexes`.                                     *)
(*                                                                         *)
(* Strings that the code inspects character by character (version strings, *)
(* allowedVersions) are sequences of one-character strings, so that        *)
(* startsWith / endsWith / slice / length and the regex test are computed. *)
(* An absent (undefined) string argument and the empty string are both     *)
(* falsy in the code and are both written << >>.  Optional booleans are    *)
(* "undefined", "true" or "false".                                         *)
(***************************************************************************)
EXTENDS Integers, Sequences, FiniteSets, TLC

VARIABLES
  regexes,  \* filter.ts:21  the process-wide cache, expression text -> pattern
  args,     \* the arguments of the current call of filterVersions
  outcome   \* what that call produced: nothing yet, a returned list, a thrown error

vars == <<regexes, args, outcome>>

\* Longest candidate sequence passed to filterVersions.
MaxLen == 3

-----------------------------------------------------------------------------
(* Version strings and allowedVersions expressions of the bounded universe. *)

V100  == <<"1", ".", "0", ".", "0">>
V110a == <<"1", ".", "1", ".", "0", "-", "a">>
V110b == <<"1", ".", "1", ".", "0", "-", "b">>
V110  == <<"1", ".", "1", ".", "0">>
V120b == <<"1", ".", "2", ".", "0", "-", "b">>
V200  == <<"2", ".", "0", ".", "0">>

Absent      == << >>
RegexB      == <<"/", "b", "/">>
NotRegexB   == <<"!", "/", "b", "/">>
Regex2      == <<"/", "2", "/">>
Slash       == <<"/">>
BangSlash   == <<"!", "/">>
RangeLt2    == <<"<", "2">>
RangeX      == <<"1", ".", "x">>
RangeCompat == <<"~", "=", "1">>
Garbage     == <<"?">>

-----------------------------------------------------------------------------
(* JavaScript string primitives used by the code.                          *)

startsWith(s, p) == Len(s) >= Len(p) /\ SubSeq(s, 1, Len(p)) = p

endsWith(s, p) == Len(s) >= Len(p) /\ SubSeq(s, Len(s) - Len(p) + 1, Len(s)) = p

\* s.slice(begin, -fromEnd): zero-based begin, the last fromEnd characters cut.
slice(s, begin, fromEnd) == SubSeq(s, begin + 1, Len(s) - fromEnd)

RECURSIVE escape(_)
escape(s) ==
  IF s = << >> THEN << >>
  ELSE (IF Head(s) \in {"\"", "\\"} THEN <<"\\", Head(s)>> ELSE <<Head(s)>>)
       \o escape(Tail(s))

\* JSON.stringify of a string: escaped and wrapped in double quotes.
stringify(s) == <<"\"">> \o escape(s) \o <<"\"">>

-----------------------------------------------------------------------------
(* util/regex: regEx compiles a pattern; the universe holds literal        *)
(* patterns only, and a literal pattern matches where it occurs.           *)

regEx(pattern) == [source |-> pattern]

test(re, str) ==
  \E i \in 1..(Len(str) - Len(re.source) + 1) :
    SubSeq(str, i, i + Len(re.source) - 1) = re.source

-----------------------------------------------------------------------------
(* The versioning providers (allVersioning.get, npm, poetry) and the       *)
(* semver / pep440 fallbacks: capability objects the filter only calls.    *)

npmId    == "npm"
poetryId == "poetry"
otherId  == "other"

Digit(c) == CASE c = "0" -> 0 [] c = "1" -> 1 [] c = "2" -> 2 [] OTHER -> 3

Rank(c) == CASE c = "a" -> 1 [] c = "b" -> 2 [] OTHER -> 3

getMajor(scheme, v) == Digit(v[1])
getMinor(scheme, v) == Digit(v[3])
getPatch(scheme, v) == Digit(v[5])

prerelease(v) == IF Len(v) > 6 THEN SubSeq(v, 7, Len(v)) ELSE << >>

isStable(scheme, v) == prerelease(v) = << >>

Triple(scheme, v) == <<getMajor(scheme, v), getMinor(scheme, v), getPatch(scheme, v)>>

TripleGreater(a, b) ==
  \/ a[1] > b[1]
  \/ a[1] = b[1] /\ a[2] > b[2]
  \/ a[1] = b[1] /\ a[2] = b[2] /\ a[3] > b[3]

isGreaterThan(scheme, a, b) ==
  \/ TripleGreater(Triple(scheme, a), Triple(scheme, b))
  \/ /\ Triple(scheme, a) = Triple(scheme, b)
     /\ prerelease(b) # << >>
     /\ \/ prerelease(a) = << >>
        \/ Rank(prerelease(a)[1]) > Rank(prerelease(b)[1])

\* versioning.isValid: the permissive scheme accepts whatever it is given.
isValid(scheme, expr) ==
  CASE scheme = npmId    -> expr \in {RangeLt2, RangeX}
    [] scheme = poetryId -> expr \in {RangeX}
    [] OTHER             -> expr # << >> /\ expr # Garbage

\* A range holds of release versions only (no pre-release satisfies it).
rangeHolds(v, expr) ==
  /\ prerelease(v) = << >>
  /\ CASE expr = RangeLt2 -> Digit(v[1]) < 2
       [] expr = RangeX   -> Digit(v[1]) = 1
       [] OTHER           -> v = expr

matches(scheme, v, expr) == rangeHolds(v, expr)

semverValidRange(expr) == expr \in {RangeLt2, RangeX}

\* semver.coerce keeps major.minor.patch and drops the pre-release part.
semverCoerce(v) == SubSeq(v, 1, 5)

semverSatisfies(v, expr) == rangeHolds(v, expr)

pep440IsValid(expr) == expr \in {RangeLt2, RangeCompat}

pep440Matches(v, expr) ==
  CASE expr = RangeLt2    -> Digit(v[1]) < 2 /\ prerelease(v) = << >>
    [] expr = RangeCompat -> Digit(v[1]) = 1
    [] OTHER              -> FALSE

CONFIG_VALIDATION == "config-validation"

-----------------------------------------------------------------------------
(* filterVersions, stage by stage.                                         *)

NoError ==
  [message |-> "", configFile |-> "", validationError |-> "",
   validationMessage |-> << >>]

NoOutcome == [kind |-> "none", value |-> << >>, error |-> NoError]

Return(list) == [kind |-> "return", value |-> list, error |-> NoError]

Throw(err) == [kind |-> "throw", value |-> << >>, error |-> err]

MessagePrefix ==
  "The following allowedVersions does not parse as a valid version or range: "

\* filter.ts:119-125 (validationError is written without its back quotes)
InvalidAllowedVersions(allowedVersions) ==
  [message |-> CONFIG_VALIDATION,
   configFile |-> "config",
   validationError |-> "Invalid allowedVersions",
   validationMessage |-> <<MessagePrefix>> \o stringify(allowedVersions)]

\* versions.find((release) => release.version === version): index of the
\* first such release, 0 when there is none.
findIndex(versions, version) ==
  IF \E i \in DOMAIN versions : versions[i].version = version
  THEN CHOOSE i \in DOMAIN versions :
         /\ versions[i].version = version
         /\ \A j \in 1..(i - 1) : versions[j].version # version
  ELSE 0

\* Mutant: the cut keeps what is not less than the reference (>= for >).
BaselineCut_notLess(config, fromVersion, versions) ==
  SelectSeq(versions,
            LAMBDA v : ~isGreaterThan(config.versioning, fromVersion, v.version))

\* filter.ts:48-50
BaselineCut(config, fromVersion, versions) ==
  SelectSeq(versions,
            LAMBDA v : isGreaterThan(config.versioning, v.version, fromVersion))

\* Mutant: the guard returns the records it looked up instead of the candidates.
DeprecationGuard_lookedUp(config, fromVersion, versions, filteredVersions) ==
  LET fromRelease == findIndex(versions, fromVersion)
      kept == SelectSeq(filteredVersions,
                        LAMBDA v :
                          ~versions[findIndex(versions, v.version)].isDeprecated)
  IN IF /\ config.ignoreDeprecated = "true"
        /\ fromRelease # 0
        /\ ~versions[fromRelease].isDeprecated
     THEN [i \in 1..Len(kept) |-> versions[findIndex(versions, kept[i].version)]]
     ELSE [i \in 1..Len(filteredVersions) |->
             versions[findIndex(versions, filteredVersions[i].version)]]

\* Mutant: the guard does not look at the reference's own deprecation.
DeprecationGuard_anyReference(config, fromVersion, versions, filteredVersions) ==
  LET fromRelease == findIndex(versions, fromVersion)
  IN IF config.ignoreDeprecated = "true" /\ fromRelease # 0
     THEN SelectSeq(filteredVersions,
                    LAMBDA v :
                      ~versions[findIndex(versions, v.version)].isDeprecated)
     ELSE filteredVersions

\* filter.ts:53-69
DeprecationGuard(config, fromVersion, versions, filteredVersions) ==
  LET fromRelease == findIndex(versions, fromVersion)
  IN IF /\ config.ignoreDeprecated = "true"
        /\ fromRelease # 0
        /\ ~versions[fromRelease].isDeprecated
     THEN SelectSeq(filteredVersions,
                    LAMBDA v :
                      ~versions[findIndex(versions, v.version)].isDeprecated)
     ELSE filteredVersions

\* Mutant: an expression no strategy accepts is ignored instead of rejected.
Strategy_lenient(config) ==
  LET allowedVersions == config.allowedVersions
  IN IF allowedVersions = << >> THEN "none"
     ELSE IF /\ Len(allowedVersions) > 1
             /\ startsWith(allowedVersions, <<"/">>)
             /\ endsWith(allowedVersions, <<"/">>)
     THEN "regex"
     ELSE IF /\ Len(allowedVersions) > 2
             /\ startsWith(allowedVersions, <<"!", "/">>)
             /\ endsWith(allowedVersions, <<"/">>)
     THEN "notRegex"
     ELSE IF isValid(config.versioning, allowedVersions) THEN "versioning"
     ELSE IF config.versioning # npmId /\ semverValidRange(allowedVersions)
     THEN "semver"
     ELSE IF config.versioning = poetryId /\ pep440IsValid(allowedVersions)
     THEN "pep440"
     ELSE "none"

\* Mutant: the scheme's own range is tried before the regex wrappers.
Strategy_nativeFirst(config) ==
  LET allowedVersions == config.allowedVersions
  IN IF allowedVersions = << >> THEN "none"
     ELSE IF isValid(config.versioning, allowedVersions) THEN "versioning"
     ELSE IF /\ Len(allowedVersions) > 1
             /\ startsWith(allowedVersions, <<"/">>)
             /\ endsWith(allowedVersions, <<"/">>)
     THEN "regex"
     ELSE IF /\ Len(allowedVersions) > 2
             /\ startsWith(allowedVersions, <<"!", "/">>)
             /\ endsWith(allowedVersions, <<"/">>)
     THEN "notRegex"
     ELSE IF config.versioning # npmId /\ semverValidRange(allowedVersions)
     THEN "semver"
     ELSE IF config.versioning = poetryId /\ pep440IsValid(allowedVersions)
     THEN "pep440"
     ELSE "throw"

\* filter.ts:71-126: which branch of the if / else-if chain is taken.
Strategy(config) ==
  LET allowedVersions == config.allowedVersions
  IN IF allowedVersions = << >> THEN "none"
     ELSE IF /\ Len(allowedVersions) > 1
             /\ startsWith(allowedVersions, <<"/">>)
             /\ endsWith(allowedVersions, <<"/">>)
     THEN "regex"
     ELSE IF /\ Len(allowedVersions) > 2
             /\ startsWith(allowedVersions, <<"!", "/">>)
             /\ endsWith(allowedVersions, <<"/">>)
     THEN "notRegex"
     ELSE IF isValid(config.versioning, allowedVersions) THEN "versioning"
     ELSE IF config.versioning # npmId /\ semverValidRange(allowedVersions)
     THEN "semver"
     ELSE IF config.versioning = poetryId /\ pep440IsValid(allowedVersions)
     THEN "pep440"
     ELSE "throw"

\* Mutant: the cache is keyed by the first character of the expression.
cacheKey_firstChar(allowedVersions) == SubSeq(allowedVersions, 1, 1)

\* The key under which a compiled pattern is stored and looked up.
cacheKey(allowedVersions) == allowedVersions

\* regexes[allowedVersions] || regEx(inner)
cached(regs, allowedVersions, inner) ==
  IF cacheKey(allowedVersions) \in DOMAIN regs
  THEN regs[cacheKey(allowedVersions)]
  ELSE regEx(inner)

\* filter.ts:77-78 and 87-88: the cache after the assignment.
store(regs, allowedVersions, inner) ==
  [k \in DOMAIN regs \cup {cacheKey(allowedVersions)} |->
     IF k = cacheKey(allowedVersions)
     THEN cached(regs, allowedVersions, inner)
     ELSE regs[k]]

\* The inner text the taken regex branch compiles.
innerText(config) ==
  IF Strategy(config) = "regex"
  THEN slice(config.allowedVersions, 1, 1)
  ELSE slice(config.allowedVersions, 2, 1)

\* filter.ts:71-127, the filtering done by the branch taken.
AllowedCut(regs, config, filteredVersions) ==
  LET allowedVersions == config.allowedVersions
      s == Strategy(config)
      after == store(regs, allowedVersions, innerText(config))
  IN CASE s = "regex" ->
            SelectSeq(filteredVersions,
                      LAMBDA v : test(after[cacheKey(allowedVersions)], v.version))
       [] s = "notRegex" ->
            SelectSeq(filteredVersions,
                      LAMBDA v : ~test(after[cacheKey(allowedVersions)], v.version))
       [] s = "versioning" ->
            SelectSeq(filteredVersions,
                      LAMBDA v : matches(config.versioning, v.version, allowedVersions))
       [] s = "semver" ->
            SelectSeq(filteredVersions,
                      LAMBDA v : semverSatisfies(semverCoerce(v.version), allowedVersions))
       [] s = "pep440" ->
            SelectSeq(filteredVersions,
                      LAMBDA v : pep440Matches(v.version, allowedVersions))
       [] OTHER -> filteredVersions

\* filter.ts:130
Bypass(config) == config.followTag # "" \/ config.ignoreUnstable = "false"

\* Mutant: an unstable candidate is kept when only its major matches.
UnstableCut_majorOnly(config, fromVersion, filteredVersions) ==
  SelectSeq(filteredVersions,
            LAMBDA v :
              \/ isStable(config.versioning, v.version)
              \/ getMajor(config.versioning, v.version)
                   = getMajor(config.versioning, fromVersion))

\* filter.ts:137-143
UnstableCut(config, fromVersion, filteredVersions) ==
  SelectSeq(filteredVersions,
            LAMBDA v :
              \/ isStable(config.versioning, v.version)
              \/ /\ getMajor(config.versioning, v.version)
                      = getMajor(config.versioning, fromVersion)
                 /\ getMinor(config.versioning, v.version)
                      = getMinor(config.versioning, fromVersion)
                 /\ getPatch(config.versioning, v.version)
                      = getPatch(config.versioning, fromVersion))

\* filter.ts:147
StableCut(config, filteredVersions) ==
  SelectSeq(filteredVersions, LAMBDA v : isStable(config.versioning, v.version))

\* Mutant: the ceiling is applied even when the reference is past it.
Ceiling_noAheadCheck(config, fromVersion, latestVersion, filteredVersions) ==
  IF latestVersion = << >> THEN filteredVersions
  ELSE IF config.respectLatest = "false" THEN filteredVersions
  ELSE SelectSeq(filteredVersions,
                 LAMBDA v : ~isGreaterThan(config.versioning, v.version, latestVersion))

\* filter.ts:153-166
Ceiling(config, fromVersion, latestVersion, filteredVersions) ==
  IF latestVersion = << >> THEN filteredVersions
  ELSE IF config.respectLatest = "false" THEN filteredVersions
  ELSE IF isGreaterThan(config.versioning, fromVersion, latestVersion)
  THEN filteredVersions
  ELSE SelectSeq(filteredVersions,
                 LAMBDA v : ~isGreaterThan(config.versioning, v.version, latestVersion))

\* filter.ts:130-166
StabilityAndCeiling(config, fromVersion, latestVersion, filteredVersions) ==
  IF Bypass(config) THEN filteredVersions
  ELSE IF ~isStable(config.versioning, fromVersion)
  THEN UnstableCut(config, fromVersion, filteredVersions)
  ELSE Ceiling(config, fromVersion, latestVersion,
               StableCut(config, filteredVersions))

\* Stages A and B: filter.ts:48-69
AfterDeprecation(config, fromVersion, versions) ==
  DeprecationGuard(config, fromVersion, versions,
                   BaselineCut(config, fromVersion, versions))

\* Stages A, B and C of a call that does not throw.
AfterAllowed(regs, config, fromVersion, versions) ==
  AllowedCut(regs, config, AfterDeprecation(config, fromVersion, versions))

\* Mutant: the empty-reference check comes after the allow-list stage.
Result_lateReferenceCheck(regs, config, fromVersion, latestVersion, versions) ==
  IF Strategy(config) = "throw"
  THEN Throw(InvalidAllowedVersions(config.allowedVersions))
  ELSE IF fromVersion = << >> THEN Return(<< >>)
  ELSE Return(StabilityAndCeiling(config, fromVersion, latestVersion,
                                  AfterAllowed(regs, config, fromVersion, versions)))

\* filter.ts:23-167: what the call produces, in the order the code decides it.
Result(regs, config, fromVersion, latestVersion, versions) ==
  IF fromVersion = << >> THEN Return(<< >>)
  ELSE IF Strategy(config) = "throw"
  THEN Throw(InvalidAllowedVersions(config.allowedVersions))
  ELSE Return(StabilityAndCeiling(config, fromVersion, latestVersion,
                                  AfterAllowed(regs, config, fromVersion, versions)))

\* filter.ts:77-78, 87-88: the cache the call leaves behind.
RegexesAfter(regs, config, fromVersion) ==
  IF fromVersion # << >> /\ Strategy(config) \in {"regex", "notRegex"}
  THEN store(regs, config.allowedVersions, innerText(config))
  ELSE regs

-----------------------------------------------------------------------------
(* Bounded inputs.                                                         *)

EmptyCache == [k \in {} |-> regEx(<< >>)]

SeqsUpTo(S, n) == UNION {[1..k -> S] : k \in 0..n}

Tri == {"undefined", "true", "false"}

CandidateVersions == {V110b, V110, V120b, V200}

Releases == [version : CandidateVersions, isDeprecated : BOOLEAN]

PlainReleases == [version : CandidateVersions, isDeprecated : {FALSE}]

\* Deprecation, stability and ceiling policy, no allow-list.
PolicyArgs ==
  [config : [allowedVersions : {Absent},
             followTag : {""},
             ignoreDeprecated : {"undefined", "true"},
             ignoreUnstable : {"undefined", "false"},
             respectLatest : {"undefined", "false"},
             versioning : {npmId}],
   fromVersion : {V100, V110a, V110},
   latestVersion : {<< >>, V100, V110},
   versions : SeqsUpTo(Releases, MaxLen)]

\* Allow-list strategies under every scheme, with and without the bypass.
AllowedArgs ==
  [config : [allowedVersions : {RegexB, NotRegexB, Regex2, Slash, BangSlash,
                                RangeLt2, RangeX, RangeCompat, Garbage},
             followTag : {"", "next"},
             ignoreDeprecated : {"undefined"},
             ignoreUnstable : Tri,
             respectLatest : {"undefined"},
             versioning : {npmId, poetryId, otherId}],
   fromVersion : {<< >>, V100, V110a},
   latestVersion : {<< >>},
   versions : SeqsUpTo(PlainReleases, MaxLen)]

Inputs == PolicyArgs \cup AllowedArgs

\* Repeated calls that share the cache.
CacheArgs ==
  [config : [allowedVersions : {Absent, RegexB, NotRegexB, Regex2, Garbage},
             followTag : {"next"},
             ignoreDeprecated : {"undefined"},
             ignoreUnstable : {"undefined"},
             respectLatest : {"undefined"},
             versioning : {npmId}],
   fromVersion : {<< >>, V100},
   latestVersion : {<< >>},
   versions : SeqsUpTo([version : {V110b, V200}, isDeprecated : {FALSE}], MaxLen)]

-----------------------------------------------------------------------------
(* The state machine.                                                      *)

Init ==
  /\ regexes = EmptyCache
  /\ args \in Inputs
  /\ outcome = NoOutcome

InitCache ==
  /\ regexes = EmptyCache
  /\ args \in CacheArgs
  /\ outcome = NoOutcome

\* One whole call of filterVersions on the pending arguments.
filterVersions ==
  /\ outcome.kind = "none"
  /\ outcome' = Result(regexes, args.config, args.fromVersion,
                       args.latestVersion, args.versions)
  /\ regexes' = RegexesAfter(regexes, args.config, args.fromVersion)
  /\ UNCHANGED args

\* The caller takes the result and calls again with new arguments.
nextCall ==
  /\ outcome.kind # "none"
  /\ args' \in CacheArgs
  /\ outcome' = NoOutcome
  /\ UNCHANGED regexes

Next == filterVersions

NextCache == filterVersions \/ nextCall

Spec == Init /\ [][Next]_vars

SpecCache == InitCache /\ [][NextCache]_vars

-----------------------------------------------------------------------------
(* Properties.                                                             *)

config == args.config

Called == outcome.kind # "none"

Returned == outcome.kind = "return"

RECURSIVE IsSubsequence(_, _)
IsSubsequence(s, t) ==
  IF s = << >> THEN TRUE
  ELSE IF t = << >> THEN FALSE
  ELSE IF Head(s) = Head(t) THEN IsSubsequence(Tail(s), Tail(t))
  ELSE IsSubsequence(s, Tail(t))

Range(s) == {s[i] : i \in DOMAIN s}

ReturnedVersions == {outcome.value[i].version : i \in DOMAIN outcome.value}

InputVersions == {args.versions[i].version : i \in DOMAIN args.versions}

\* C1: whatever a call returns is an ordered subsequence of the candidate
\* sequence it was given: every returned release is an input release (same
\* version, same isDeprecated), none is made up or repeated, order is kept.
C1_Subsequence == Returned => IsSubsequence(outcome.value, args.versions)

C1_Witness ==
  /\ Returned
  /\ Len(args.versions) = 3
  /\ Len(outcome.value) = 2
  /\ outcome.value[1].isDeprecated
  /\ outcome.value[1].version # outcome.value[2].version

\* C2: every returned release is strictly greater than the reference version
\* under the active comparator, on every exit path.
C2_AboveReference ==
  Returned =>
    \A i \in DOMAIN outcome.value :
      isGreaterThan(config.versioning, outcome.value[i].version, args.fromVersion)

C2_Witness ==
  /\ Returned
  /\ outcome.value # << >>
  /\ args.fromVersion \in InputVersions
  /\ config.ignoreUnstable = "false"

\* C3: a call with an absent or empty reference version returns the empty
\* sequence at once: no configuration error is raised, even for an expression
\* no strategy accepts, and the allow-list stage leaves no trace in the cache.
C3_EmptyReference ==
  (Called /\ args.fromVersion = << >>) =>
    outcome = Return(<< >>) /\ regexes = EmptyCache

C3_Witness ==
  /\ Called
  /\ args.fromVersion = << >>
  /\ config.allowedVersions = Garbage
  /\ args.versions # << >>

\* The claim's own reading of "none of the five strategies applies".
NoStrategyApplies(c) ==
  LET a == c.allowedVersions
  IN /\ a # << >>
     /\ ~(Len(a) > 1 /\ a[1] = "/" /\ a[Len(a)] = "/")
     /\ ~(Len(a) > 2 /\ a[1] = "!" /\ a[2] = "/" /\ a[Len(a)] = "/")
     /\ ~isValid(c.versioning, a)
     /\ ~(c.versioning # npmId /\ semverValidRange(a))
     /\ ~(c.versioning = poetryId /\ pep440IsValid(a))

\* C4: with a non-empty reference, a non-empty allowedVersions that no strategy
\* accepts makes the call fail with the configuration-validation error (fixed
\* tag, the field name, the expression quoted in the message), for every
\* candidate sequence and also when followTag is set or ignoreUnstable is false.
C4_ConfigError ==
  (Called /\ args.fromVersion # << >> /\ NoStrategyApplies(config)) =>
    /\ outcome.kind = "throw"
    /\ outcome.error.message = CONFIG_VALIDATION
    /\ outcome.error.validationError = "Invalid allowedVersions"
    /\ outcome.error.validationMessage
         = <<MessagePrefix, "\"">> \o config.allowedVersions \o <<"\"">>

C4_Witness ==
  /\ outcome.kind = "throw"
  /\ config.followTag # ""
  /\ config.allowedVersions = BangSlash
  /\ args.versions = << >>

\* The predicate of the first applicable strategy, in the claimed order.
ClaimedKeep(c, version) ==
  LET a == c.allowedVersions
  IN IF Len(a) > 1 /\ a[1] = "/" /\ a[Len(a)] = "/"
     THEN test(regEx(SubSeq(a, 2, Len(a) - 1)), version)
     ELSE IF Len(a) > 2 /\ a[1] = "!" /\ a[2] = "/" /\ a[Len(a)] = "/"
     THEN ~test(regEx(SubSeq(a, 3, Len(a) - 1)), version)
     ELSE IF isValid(c.versioning, a) THEN matches(c.versioning, version, a)
     ELSE IF c.versioning # npmId /\ semverValidRange(a)
     THEN semverSatisfies(semverCoerce(version), a)
     ELSE pep440Matches(version, a)

\* C5: with a non-empty allowedVersions exactly one strategy filters, the first
\* applicable one in the order regex-include, regex-exclude, native range,
\* generic range fallback, secondary-scheme fallback: what the call returns is
\* the stability-and-ceiling stage applied to the Stage B survivors that
\* satisfy that one strategy's predicate.
C5_FirstStrategyWins ==
  (Returned /\ args.fromVersion # << >> /\ config.allowedVersions # << >>) =>
    outcome.value
      = StabilityAndCeiling(
          config, args.fromVersion, args.latestVersion,
          SelectSeq(AfterDeprecation(config, args.fromVersion, args.versions),
                    LAMBDA v : ClaimedKeep(config, v.version)))

C5_Witness ==
  /\ Returned
  /\ config.allowedVersions = RegexB
  /\ isValid(config.versioning, RegexB)
  /\ config.followTag # ""
  /\ outcome.value # << >>
  /\ Len(outcome.value) < Len(args.versions)

\* C6: if ignoreDeprecated is true and the candidate sequence holds a record
\* for the reference version that is not deprecated, no returned release has
\* isDeprecated = TRUE.
C6_NoDeprecatedReturned ==
  ( /\ Returned
    /\ config.ignoreDeprecated = "true"
    /\ \E i \in DOMAIN args.versions :
         /\ args.versions[i].version = args.fromVersion
         /\ ~args.versions[i].isDeprecated ) =>
    \A j \in DOMAIN outcome.value : ~outcome.value[j].isDeprecated

\* The record the code takes for the reference: the first one with its version.
ReferenceRecords ==
  {i \in DOMAIN args.versions : args.versions[i].version = args.fromVersion}

ReferenceDeprecatedOrMissing ==
  \/ ReferenceRecords = {}
  \/ \E i \in ReferenceRecords :
       /\ \A j \in ReferenceRecords : i <= j
       /\ args.versions[i].isDeprecated

\* C7: if the record for the reference version is itself deprecated, or there
\* is none, Stage B removes nothing whatever ignoreDeprecated says: the call
\* produces what it produces with ignoreDeprecated unset, i.e. exactly the
\* candidates that pass Stages A, C and D.
C7_GuardInactive ==
  (Called /\ ReferenceDeprecatedOrMissing) =>
    /\ outcome = Result(regexes, [config EXCEPT !.ignoreDeprecated = "undefined"],
                        args.fromVersion, args.latestVersion, args.versions)
    /\ Returned /\ args.fromVersion # << >> =>
         outcome.value
           = StabilityAndCeiling(
               config, args.fromVersion, args.latestVersion,
               AllowedCut(regexes, config,
                          BaselineCut(config, args.fromVersion, args.versions)))

C7_Witness ==
  /\ Returned
  /\ config.ignoreDeprecated = "true"
  /\ ReferenceRecords # {}
  /\ ReferenceDeprecatedOrMissing
  /\ \E j \in DOMAIN outcome.value : outcome.value[j].isDeprecated

StageDReached ==
  /\ Returned
  /\ args.fromVersion # << >>
  /\ config.followTag = ""
  /\ config.ignoreUnstable # "false"

C9_Ceiling ==
  ( /\ StageDReached
    /\ isStable(config.versioning, args.fromVersion)
    /\ args.latestVersion # << >>
    /\ config.respectLatest # "false" ) =>
    LET stable == SelectSeq(
                    AfterAllowed(regexes, config, args.fromVersion, args.versions),
                    LAMBDA v : isStable(config.versioning, v.version))
        ahead == isGreaterThan(config.versioning, args.fromVersion,
                               args.latestVersion)
    IN /\ outcome.value
            = SelectSeq(stable,
                        LAMBDA v :
                          ~(/\ isGreaterThan(config.versioning, v.version,
                                             args.latestVersion)
                            /\ ~ahead))
       /\ ahead => outcome.value = stable
       /\ ~ahead =>
            /\ \A i \in DOMAIN outcome.value :
                 ~isGreaterThan(config.versioning, outcome.value[i].version,
                                args.latestVersion)
            /\ \A i \in DOMAIN stable :
                 stable[i].version = args.latestVersion
                   => stable[i] \in Range(outcome.value)

C9_Witness ==
  /\ StageDReached
  /\ args.fromVersion = V100
  /\ args.latestVersion = V110
  /\ config.respectLatest # "false"
  /\ ReturnedVersions = {V110}
  /\ V200 \in InputVersions

\* Every call produces what it would produce on an empty cache.
CacheUnobservable ==
  Called => outcome = Result(EmptyCache, config, args.fromVersion,
                             args.latestVersion, args.versions)

\* No step removes a cache entry or replaces its pattern.
CacheAppendOnly ==
  \A k \in DOMAIN regexes : k \in DOMAIN regexes' /\ regexes'[k] = regexes[k]

\* C10: over any sequence of calls the regex cache is never observable (each
\* call produces what it would produce as the first call on an empty cache,
\* failing calls included) and an entry once stored under an expression text
\* is never replaced by a different pattern or removed.
C10_CacheTransparent == [](CacheUnobservable) /\ [][CacheAppendOnly]_vars

C10_Witness ==
  /\ Returned
  /\ {RegexB, NotRegexB, Regex2} \subseteq DOMAIN regexes
  /\ config.allowedVersions = NotRegexB
  /\ ReturnedVersions = {V200}
  /\ V110b \in InputVersions

====
